---------------------------- MODULE Spec2Model ----------------------------
(***************************************************************************)
(* A model of powerspot: the chained command line of src/powerspot/cli.py, *)
(* the Spotify operations of src/powerspot/operations.py and the text      *)
(* input/output of src/powerspot/io.py.                                    *)
(*                                                                         *)
(* Text is a sequence of one-character strings, so that formatting and     *)
(* parsing are computed character by character as the Python code does.    *)
(* A date-time is a record [y, m, d, tod]; tod counts ticks since midnight.*)
(***************************************************************************)
EXTENDS Integers, Sequences, FiniteSets, TLC

VARIABLES
    ctx,      \* click context object ctx.obj: a function from key to value
    status,   \* "running" while the chain runs, "failed" once an exception escaped
    err,      \* the exception type that ended the chain, or None
    hist,     \* the subcommands invoked so far, with their options and outcome
    files,    \* the files written by `write`: file name -> text
    library,  \* album ids saved in the user library through save_albums
    call      \* the last direct call of an operation: [op, args, ret]

vars == <<ctx, status, err, hist, files, library, call>>

cliVars == <<ctx, status, err, hist, files, library>>

(***************************************************************************)
(* Bounds of the model.                                                    *)
(***************************************************************************)
MaxChain == 3       \* subcommands in one chain

MaxArtists == 3     \* artists in one sequence handed to an operation

MaxPages == 3       \* pages the remote API holds for one listing

TicksPerDay == 2    \* resolution of the time of day

MaxAlbums == 3      \* album records in one sequence handed to a formatter

(***************************************************************************)
(* Python values.                                                          *)
(***************************************************************************)
\* Every Python value carries a tag, so that None, an escaping exception, a
\* list and a datetime are told apart by equality.
PyNone == [tag |-> "None"]

PyList(xs) == [tag |-> "list", items |-> xs]

PyStr(s) == [tag |-> "str", text |-> s]

Raise(e) == [tag |-> "raise", exc |-> e]

IsRaise(v) == v.tag = "raise"

DateTime(y, m, d, tod) == [tag |-> "datetime", y |-> y, m |-> m, d |-> d, tod |-> tod]

(***************************************************************************)
(* Characters and text.                                                    *)
(***************************************************************************)
DigitChar == <<"0", "1", "2", "3", "4", "5", "6", "7", "8", "9">>

IsDigit(c) == \E i \in 1..10 : DigitChar[i] = c

DigitVal(c) == (CHOOSE i \in 1..10 : DigitChar[i] = c) - 1

IsSpace(c) == c \in {" ", "\n", "\t"}

\* ord(): the code points of the letters that names are built from.
Ord(c) ==
    CASE c = "A" -> 65 [] c = "B" -> 66 [] c = "M" -> 77 [] c = "Z" -> 90
      [] c = "a" -> 97 [] c = "b" -> 98 [] c = "e" -> 101 [] c = "m" -> 109
      [] c = "s" -> 115 [] c = "u" -> 117 [] c = "z" -> 122
      [] c = " " -> 32 [] c = "-" -> 45

Letters == {"A", "B", "M", "Z", "a", "b", "e", "m", "s", "u", "z", " ", "-"}

\* str.lower() on one character: A..Z move up by 32 code points.
LowerChar(c) ==
    IF Ord(c) >= 65 /\ Ord(c) <= 90
    THEN CHOOSE l \in Letters : Ord(l) = Ord(c) + 32
    ELSE c

\* str.lower()
Lower(s) == [i \in 1..Len(s) |-> LowerChar(s[i])]

\* s < t for Python strings: lexicographic by code point.
RECURSIVE StrLess(_, _)
StrLess(s, t) ==
    IF t = <<>> THEN FALSE
    ELSE IF s = <<>> THEN TRUE
    ELSE IF Ord(Head(s)) # Ord(Head(t)) THEN Ord(Head(s)) < Ord(Head(t))
    ELSE StrLess(Tail(s), Tail(t))

\* The concatenation of a sequence of texts.
RECURSIVE Concat(_)
Concat(ss) == IF ss = <<>> THEN <<>> ELSE Head(ss) \o Concat(Tail(ss))

\* sep.join(ss)
RECURSIVE Join(_, _)
Join(sep, ss) ==
    IF ss = <<>> THEN <<>>
    ELSE IF Len(ss) = 1 THEN ss[1]
    ELSE ss[1] \o sep \o Join(sep, Tail(ss))

\* str.split(): the maximal runs of non-whitespace characters, in order.
RECURSIVE SplitFrom(_, _, _)
SplitFrom(s, i, cur) ==
    IF i > Len(s) THEN (IF cur = <<>> THEN <<>> ELSE <<cur>>)
    ELSE IF IsSpace(s[i])
         THEN (IF cur = <<>> THEN <<>> ELSE <<cur>>) \o SplitFrom(s, i + 1, <<>>)
         ELSE SplitFrom(s, i + 1, Append(cur, s[i]))

Split(s) == SplitFrom(s, 1, <<>>)

\* str.split(sep) for a one-character separator: the fields between separators.
RECURSIVE SplitOnFrom(_, _, _, _)
SplitOnFrom(s, sep, i, cur) ==
    IF i > Len(s) THEN <<cur>>
    ELSE IF s[i] = sep THEN <<cur>> \o SplitOnFrom(s, sep, i + 1, <<>>)
    ELSE SplitOnFrom(s, sep, i + 1, Append(cur, s[i]))

SplitOn(s, sep) == SplitOnFrom(s, sep, 1, <<>>)

\* file.readline() from position pos (1-based): the text up to and including
\* the next newline, or up to the end of the file; empty at end of file.
RECURSIVE ReadLine(_, _)
ReadLine(text, pos) ==
    IF pos > Len(text) THEN <<>>
    ELSE IF text[pos] = "\n" THEN <<"\n">>
    ELSE <<text[pos]>> \o ReadLine(text, pos + 1)

(***************************************************************************)
(* Dates: datetime.datetime, strptime, strftime and timedelta.             *)
(***************************************************************************)
IsLeap(y) == (y % 4 = 0 /\ y % 100 # 0) \/ y % 400 = 0

DaysInMonth(y, m) ==
    IF m = 2 THEN (IF IsLeap(y) THEN 29 ELSE 28)
    ELSE IF m \in {4, 6, 9, 11} THEN 30 ELSE 31

RECURSIVE DaysBeforeMonth(_, _)
DaysBeforeMonth(y, m) ==
    IF m = 1 THEN 0 ELSE DaysBeforeMonth(y, m - 1) + DaysInMonth(y, m - 1)

\* date.toordinal(): days since 0001-01-01, that day being 1.
ToOrdinal(y, m, d) ==
    365 * (y - 1) + ((y - 1) \div 4) - ((y - 1) \div 100) + ((y - 1) \div 400)
    + DaysBeforeMonth(y, m) + d

\* The position of a datetime on the time line, in ticks: datetimes compare
\* as their instants do, and a timedelta of n days moves it by n days of ticks.
Instant(dt) == ToOrdinal(dt.y, dt.m, dt.d) * TicksPerDay + dt.tod

\* datetime.timedelta(weeks=w), in ticks.
Weeks(w) == 7 * w * TicksPerDay

AllDigits(s) == \A i \in 1..Len(s) : IsDigit(s[i])

RECURSIVE NumVal(_)
NumVal(s) == IF s = <<>> THEN 0 ELSE 10 * NumVal(SubSeq(s, 1, Len(s) - 1)) + DigitVal(s[Len(s)])

\* The field a strptime directive accepts: %Y is exactly four digits; %m is
\* 1[0-2], 0[1-9] or [1-9]; %d is 3[01], [12]\d, 0[1-9], [1-9] or a blank and [1-9].
MatchesY(f) == Len(f) = 4 /\ AllDigits(f)

MatchesM(f) == Len(f) \in {1, 2} /\ AllDigits(f) /\ NumVal(f) \in 1..12

MatchesD(f) ==
    \/ Len(f) \in {1, 2} /\ AllDigits(f) /\ NumVal(f) \in 1..31
    \/ Len(f) = 2 /\ f[1] = " " /\ IsDigit(f[2]) /\ DigitVal(f[2]) # 0

DayVal(f) == IF f[1] = " " THEN DigitVal(f[2]) ELSE NumVal(f)

\* datetime.datetime.strptime(s, "%Y-%m-%d"): the datetime at midnight, or
\* ValueError when s does not match or names no day of the calendar.
StrptimeYMD(s) ==
    LET f == SplitOn(s, "-") IN
    IF Len(f) = 3 /\ MatchesY(f[1]) /\ MatchesM(f[2]) /\ MatchesD(f[3])
       /\ NumVal(f[1]) >= 1 /\ DayVal(f[3]) <= DaysInMonth(NumVal(f[1]), NumVal(f[2]))
    THEN DateTime(NumVal(f[1]), NumVal(f[2]), DayVal(f[3]), 0)
    ELSE Raise("ValueError")

\* datetime.datetime.strptime(s, "%Y"): January 1 of the year at midnight.
StrptimeY(s) ==
    IF MatchesY(s) /\ NumVal(s) >= 1
    THEN DateTime(NumVal(s), 1, 1, 0)
    ELSE Raise("ValueError")

\* n written with w digits, zero padded.
RECURSIVE Digits(_, _)
Digits(n, w) == IF w = 0 THEN <<>> ELSE Digits(n \div 10, w - 1) \o <<DigitChar[(n % 10) + 1]>>

\* dt.strftime("%Y-%m-%d")
StrftimeYMD(dt) == Digits(dt.y, 4) \o <<"-">> \o Digits(dt.m, 2) \o <<"-">> \o Digits(dt.d, 2)

(***************************************************************************)
(* src/powerspot/io.py: the formatters and the date marker.                *)
(***************************************************************************)
Max(a, b) == IF a >= b THEN a ELSE b

RECURSIVE MaxWidth(_, _)
MaxWidth(cells, least) ==
    IF cells = <<>> THEN least ELSE MaxWidth(Tail(cells), Max(least, Len(Head(cells))))

Repeat(c, n) == [i \in 1..n |-> c]

PadRight(s, w) == s \o Repeat(" ", w - Len(s))

MinPadding == 2

\* tabulate(rows, headers=headers) of the tabulate library in its default
\* "simple" layout: a header line, a rule of dashes, one line per row; every
\* column as wide as its widest cell and at least its header plus MinPadding,
\* cells left aligned, columns two blanks apart, lines joined by newlines.
Tabulate(rows, headers) ==
    LET ncol == Len(headers)
        width(j) == MaxWidth([i \in 1..Len(rows) |-> rows[i][j]], Len(headers[j]) + MinPadding)
        line(cells) == Join(<<" ", " ">>, [j \in 1..ncol |-> PadRight(cells[j], width(j))])
        rule == Join(<<" ", " ">>, [j \in 1..ncol |-> Repeat("-", width(j))])
    IN Join(<<"\n">>, <<line(headers), rule>> \o [i \in 1..Len(rows) |-> line(rows[i])])

\* output_date without the newline that ends the marker line.
output_date_no_newline(print_date, now) ==
    IF print_date
    THEN <<"%", "d", "a", "t", "e", " ">> \o StrftimeYMD(now)
    ELSE <<>>

\* output_date: the marker line "%date YYYY-MM-DD\n" for the clock reading
\* now, or the empty text.
output_date(print_date, now) ==
    IF print_date
    THEN <<"%", "d", "a", "t", "e", " ">> \o StrftimeYMD(now) \o <<"\n">>
    ELSE <<>>

\* parse_artists: the marker, then "- {name}\n" per artist.
parse_artists(artists_json, print_date, now) ==
    output_date(print_date, now)
    \o Concat([i \in 1..Len(artists_json) |->
                 <<"-", " ">> \o artists_json[i].name \o <<"\n">>])

\* parse_albums with the album name put before the artist name.
parse_albums_album_first(albums_json, print_date, now) ==
    output_date(print_date, now)
    \o Concat([i \in 1..Len(albums_json) |->
                 <<"-", " ">> \o albums_json[i].name
                 \o <<" ", "-", " ">> \o albums_json[i].artists[1].name
                 \o <<" ", "-", " ">> \o albums_json[i].release_date \o <<"\n">>])

\* parse_albums: the marker, then "- {artist} - {album} - {date}\n" per album.
parse_albums(albums_json, print_date, now) ==
    output_date(print_date, now)
    \o Concat([i \in 1..Len(albums_json) |->
                 <<"-", " ">> \o albums_json[i].artists[1].name
                 \o <<" ", "-", " ">> \o albums_json[i].name
                 \o <<" ", "-", " ">> \o albums_json[i].release_date \o <<"\n">>])

\* tabulate_albums: the marker, then the table Artist | Album | Date.
tabulate_albums(albums_json, print_date, now) ==
    output_date(print_date, now)
    \o Tabulate([i \in 1..Len(albums_json) |->
                   <<albums_json[i].artists[1].name, albums_json[i].name,
                     albums_json[i].release_date>>],
                <<<<"A", "r", "t", "i", "s", "t">>, <<"A", "l", "b", "u", "m">>,
                  <<"D", "a", "t", "e">>>>)

\* tabulate_tracks: the marker, then the table Artist | Track | Album.
tabulate_tracks(tracks_json, print_date, now) ==
    output_date(print_date, now)
    \o Tabulate([i \in 1..Len(tracks_json) |->
                   <<tracks_json[i].artists[1].name, tracks_json[i].name,
                     tracks_json[i].album.name>>],
                <<<<"A", "r", "t", "i", "s", "t">>, <<"T", "r", "a", "c", "k">>,
                  <<"A", "l", "b", "u", "m">>>>)

\* The loop of read_date from position pos of the file: the date token of the
\* first line whose first word, its first character dropped, is "date".
\* words[0] of a line without words (a blank line, the end of the file) and
\* words[1] of a marker line of one word raise IndexError.
RECURSIVE FindDateStr(_, _)
FindDateStr(text, pos) ==
    LET line == ReadLine(text, pos)
        words == Split(line)
    IN IF words = <<>> THEN Raise("IndexError")
       ELSE IF Tail(words[1]) = <<"d", "a", "t", "e">>
            THEN (IF Len(words) < 2 THEN Raise("IndexError") ELSE PyStr(words[2]))
            ELSE FindDateStr(text, pos + Len(line))

\* read_date: the datetime of the marker; None when strptime raises
\* ValueError; an IndexError of the loop is outside the try and escapes.
read_date(text) ==
    LET date_str == FindDateStr(text, 1) IN
    IF IsRaise(date_str) THEN date_str
    ELSE LET parsed == StrptimeYMD(date_str.text) IN
         IF IsRaise(parsed) THEN PyNone ELSE parsed

(***************************************************************************)
(* src/powerspot/operations.py.  The remote API is an input of every       *)
(* operation: a listing is a sequence of pages [items, next], the first    *)
(* request returns pages[1], sp.next follows the cursor `next` (the index  *)
(* of a later page, 0 when absent); a catalog maps an artist id to the     *)
(* albums of that artist, latest first.                                    *)
(***************************************************************************)
PyInt(n) == [tag |-> "int", val |-> n]

\* scope_operation: the wrapped function runs only if a token was obtained;
\* without one the failure is echoed and None returned.
scope_operation(token, result) == IF token THEN result ELSE PyNone

\* parse_release_date without the year-only second attempt.
parse_release_date_ymd_only(date) == StrptimeYMD(date)

\* parse_release_date: "%Y-%m-%d" first, "%Y" when that raises ValueError;
\* the ValueError of the second strptime is not caught.
parse_release_date(date) ==
    IF IsRaise(StrptimeYMD(date)) THEN StrptimeY(date) ELSE StrptimeYMD(date)

\* The paging loop with the items of the page that has no `next` left out.
RECURSIVE DrainPagesButLast(_, _)
DrainPagesButLast(pages, i) ==
    IF pages[i].next # 0
    THEN pages[i].items \o DrainPagesButLast(pages, pages[i].next)
    ELSE <<>>

\* The paging loop shared by get_saved_albums, get_saved_tracks and
\* get_followed_artists: extend with the items of the page, then follow
\* `next` while it is set.
RECURSIVE DrainPages(_, _)
DrainPages(pages, i) ==
    pages[i].items \o (IF pages[i].next # 0 THEN DrainPages(pages, pages[i].next) ELSE <<>>)

get_saved_albums(token, pages) == scope_operation(token, PyList(DrainPages(pages, 1)))

get_saved_tracks(token, pages) == scope_operation(token, PyList(DrainPages(pages, 1)))

\* list.sort(key=...): a stable sort; x goes behind every element whose key
\* is not greater than its own.
\* The sort key without lower().
SortKeyRaw(artist) == artist.name

\* key=lambda artist: artist["name"].lower()
SortKey(artist) == Lower(artist.name)

RECURSIVE InsertByName(_, _)
InsertByName(sorted, x) ==
    IF sorted = <<>> THEN <<x>>
    ELSE IF StrLess(SortKey(x), SortKey(Head(sorted)))
         THEN <<x>> \o sorted
         ELSE <<Head(sorted)>> \o InsertByName(Tail(sorted), x)

RECURSIVE SortByLowerName(_)
SortByLowerName(xs) ==
    IF xs = <<>> THEN <<>>
    ELSE InsertByName(SortByLowerName(SubSeq(xs, 1, Len(xs) - 1)), xs[Len(xs)])

get_followed_artists(token, pages) ==
    scope_operation(token, PyList(SortByLowerName(DrainPages(pages, 1))))

\* sp.artist_albums(id, ..., limit=1)["items"]: at most the first album.
ArtistAlbumsLimit1(catalog, id) ==
    IF catalog[id] = <<>> THEN <<>> ELSE <<catalog[id][1]>>

\* release_date >= date
IsNewerOrEqual(release_date, cutoff) == Instant(release_date) >= cutoff

\* release_date > date
IsNewer(release_date, cutoff) == Instant(release_date) > cutoff

\* The loop of get_new_releases passing over an album whose release date
\* does not parse instead of raising.
RECURSIVE NewReleasesLoopSkipping(_, _, _, _, _)
NewReleasesLoopSkipping(catalog, artists, i, cutoff, new_releases) ==
    IF i > Len(artists) THEN PyList(new_releases)
    ELSE LET results == ArtistAlbumsLimit1(catalog, artists[i].id) IN
         IF Len(results) = 0 \/ IsRaise(parse_release_date(results[1].release_date))
         THEN NewReleasesLoopSkipping(catalog, artists, i + 1, cutoff, new_releases)
         ELSE IF IsNewer(parse_release_date(results[1].release_date), cutoff)
              THEN NewReleasesLoopSkipping(catalog, artists, i + 1, cutoff,
                                           Append(new_releases, results[1]))
              ELSE NewReleasesLoopSkipping(catalog, artists, i + 1, cutoff, new_releases)

\* The ids the loop of get_new_releases hands to sp.artist_albums, in order,
\* from artists[i] on: the loop ends at the first release date that does not
\* parse.
RECURSIVE ArtistsQueried(_, _, _)
ArtistsQueried(catalog, artists, i) ==
    IF i > Len(artists) THEN <<>>
    ELSE LET results == ArtistAlbumsLimit1(catalog, artists[i].id) IN
         <<artists[i].id>>
         \o (IF Len(results) # 0 /\ IsRaise(parse_release_date(results[1].release_date))
             THEN <<>>
             ELSE ArtistsQueried(catalog, artists, i + 1))

\* The loop of get_new_releases over artists[i..], new_releases collected
\* so far; a release date that does not parse ends the loop with ValueError.
RECURSIVE NewReleasesLoop(_, _, _, _, _)
NewReleasesLoop(catalog, artists, i, cutoff, new_releases) ==
    IF i > Len(artists) THEN PyList(new_releases)
    ELSE LET results == ArtistAlbumsLimit1(catalog, artists[i].id) IN
         IF Len(results) = 0
         THEN NewReleasesLoop(catalog, artists, i + 1, cutoff, new_releases)
         ELSE LET album == results[1]
                  release_date == parse_release_date(album.release_date)
              IN IF IsRaise(release_date) THEN release_date
                 ELSE IF IsNewer(release_date, cutoff)
                      THEN NewReleasesLoop(catalog, artists, i + 1, cutoff,
                                           Append(new_releases, album))
                      ELSE NewReleasesLoop(catalog, artists, i + 1, cutoff, new_releases)

\* The cutoff of get_new_releases as an instant: `date` when it is given,
\* else now - timedelta(weeks=weeks), which raises TypeError for weeks=None.
Cutoff(date, weeks, now) ==
    IF date # PyNone THEN PyInt(Instant(date))
    ELSE IF weeks = PyNone THEN Raise("TypeError")
    ELSE PyInt(Instant(now) - Weeks(weeks.val))

get_new_releases(catalog, artists, date, weeks, now) ==
    LET cutoff == Cutoff(date, weeks, now) IN
    IF IsRaise(cutoff) THEN cutoff
    ELSE NewReleasesLoop(catalog, artists, 1, cutoff.val, <<>>)

\* save_albums: the ids handed to current_user_saved_albums_add, or None
\* without a token.
save_albums(token, albums) ==
    scope_operation(token, PyList([i \in 1..Len(albums) |-> albums[i].id]))

get_top_artists(token, top) == scope_operation(token, PyList(top))

get_top_tracks(token, top) == scope_operation(token, PyList(top))

(***************************************************************************)
(* The records and remote answers that the checked runs draw from.         *)
(***************************************************************************)
Muse == <<"M", "u", "s", "e">>

Abba == <<"a", "b", "b", "a">>

AbbaCap == <<"A", "b", "b", "a">>

Zed == <<"Z">>

Artist(id, name) == [id |-> id, name |-> name]

IdMuse == <<"a", "r", "1">>

IdAbba == <<"a", "r", "2">>

IdAbbaCap == <<"a", "r", "3">>

IdZed == <<"a", "r", "4">>

ArtistIds == {IdMuse, IdAbba, IdAbbaCap, IdZed}

ArtMuse == Artist(IdMuse, Muse)

ArtAbba == Artist(IdAbba, Abba)

ArtAbbaCap == Artist(IdAbbaCap, AbbaCap)

ArtZed == Artist(IdZed, Zed)

Artists == {ArtMuse, ArtAbba, ArtAbbaCap, ArtZed}

Album(id, name, date, artist) ==
    [id |-> id, name |-> name, release_date |-> date, artists |-> <<[name |-> artist]>>]

AlbFeb == Album(<<"a", "l", "1">>, <<"B">>, <<"2", "0", "2", "4", "-", "0", "2", "-", "1", "0">>, Muse)

AlbDec == Album(<<"a", "l", "2">>, <<"D">>, <<"2", "0", "2", "3", "-", "1", "2", "-", "0", "1">>, Abba)

AlbYear == Album(<<"a", "l", "3">>, <<"Y">>, <<"2", "0", "2", "3">>, AbbaCap)

AlbCut == Album(<<"a", "l", "4">>, <<"C">>, <<"2", "0", "2", "4", "-", "0", "1", "-", "0", "1">>, Zed)

AlbMonth == Album(<<"a", "l", "5">>, <<"M">>, <<"2", "0", "2", "4", "-", "0", "2">>, Muse)

Jan15 == <<"2", "0", "2", "4", "-", "0", "1", "-", "1", "5">>

Dec31 == <<"2", "0", "2", "3", "-", "1", "2", "-", "3", "1">>

AlbAB == Album(<<"a", "l", "6">>, <<"B">>, <<"2", "0", "2", "0", "-", "0", "1", "-", "0", "1">>, <<"A">>)

\* An album of two artists.
AlbDuo ==
    [id |-> <<"a", "l", "7">>, name |-> <<"Z">>, release_date |-> Dec31,
     artists |-> <<[name |-> Muse], [name |-> Abba]>>]

Track(id, name, artist, album) ==
    [id |-> id, name |-> name, artists |-> <<[name |-> artist]>>, album |-> [name |-> album]]

TrkOne == Track(<<"t", "r", "1">>, <<"T">>, Muse, <<"B">>)

TrkTwo == Track(<<"t", "r", "2">>, <<"U">>, Abba, <<"D">>)

\* What the API answers for artist_albums, per artist id.
Catalogs ==
    { [id \in ArtistIds |->
         CASE id = IdMuse -> <<AlbFeb, AlbDec>> [] id = IdAbba -> <<>>
           [] id = IdAbbaCap -> <<AlbYear>> [] id = IdZed -> <<AlbCut>>],
      [id \in ArtistIds |->
         CASE id = IdMuse -> <<AlbDec>> [] id = IdAbba -> <<AlbFeb>>
           [] id = IdAbbaCap -> <<AlbMonth>> [] id = IdZed -> <<>>] }

\* Sequences over S of length at most n.
SeqsUpTo(S, n) == UNION {[1..k -> S] : k \in 0..n}

\* The listings of at most MaxPages pages: every page holds one of the
\* given item sequences and a cursor to a later page, or none.
Listings(itemChoices) ==
    UNION { { pages \in [1..n -> [items : itemChoices, next : 0..n]] :
                \A i \in 1..n : pages[i].next = 0 \/ pages[i].next > i } :
            n \in 1..MaxPages }

SavedAlbumPages ==
    { <<>>, <<[album |-> AlbFeb]>>, <<[album |-> AlbDec]>>,
      <<[album |-> AlbFeb], [album |-> AlbDec]>>,
      <<[album |-> AlbDec], [album |-> AlbFeb]>>,
      <<[album |-> AlbFeb], [album |-> AlbFeb]>> }

SavedTrackPages ==
    { <<>>, <<[track |-> TrkOne]>>, <<[track |-> TrkTwo]>>,
      <<[track |-> TrkOne], [track |-> TrkTwo]>>,
      <<[track |-> TrkTwo], [track |-> TrkOne]>> }

FollowedPages ==
    { <<>>, <<ArtMuse>>, <<ArtAbba>>, <<ArtMuse, ArtAbba>>,
      <<ArtAbba, ArtAbbaCap>>, <<ArtZed, ArtAbbaCap>> }

\* Readings of the clock.
Clock == {DateTime(2024, 2, 12, TicksPerDay - 1), DateTime(2024, 1, 29, 0)}

\* Cutoff dates handed to get_new_releases.
CutoffDates ==
    {DateTime(2024, 1, 1, 0), DateTime(2022, 6, 1, 0), DateTime(2023, 1, 1, 0),
     DateTime(2023, 12, 31, TicksPerDay - 1), DateTime(2024, 2, 9, TicksPerDay - 1)}

WeekCounts == {1, 4, 8}

\* The release dates handed to parse_release_date: the days of these years,
\* and the years alone.
ReleaseYears == {1, 1900, 2000, 2023, 2024}

CalendarDays ==
    { [y |-> y, m |-> m, d |-> d] :
        y \in ReleaseYears, m \in 1..12, d \in 1..31 }

MarkerLine(c, date) == <<c, "d", "a", "t", "e", " ">> \o date \o <<"\n">>

MuseLine == <<"-", " ">> \o Muse \o <<"\n">>

\* Files handed to read_date, each with the kind of its content and the date
\* of its first marker line (None when no marker line holds a date).
MarkerFile(kind, text, date) == [kind |-> kind, text |-> text, date |-> date]

MarkerFiles ==
    { MarkerFile("empty", <<>>, PyNone),
      MarkerFile("nomarker", MuseLine, PyNone),
      MarkerFile("nomarker", MuseLine \o MuseLine, PyNone),
      MarkerFile("notoken", <<"%", "d", "a", "t", "e", "\n">>, PyNone),
      MarkerFile("baddate", MarkerLine("%", <<"2", "0", "2", "4", "-", "1", "3", "-", "0", "1">>), PyNone),
      MarkerFile("baddate", MarkerLine("%", <<"1", "5", "/", "0", "1", "/", "2", "0", "2", "4">>), PyNone),
      MarkerFile("valid", MarkerLine("%", Jan15) \o MuseLine, DateTime(2024, 1, 15, 0)),
      MarkerFile("valid", MarkerLine("#", Dec31), DateTime(2023, 12, 31, 0)),
      MarkerFile("valid", MarkerLine("%", Jan15) \o MarkerLine("%", Dec31), DateTime(2024, 1, 15, 0)),
      MarkerFile("valid", MarkerLine("%", Jan15) \o <<"\n">> \o MuseLine, DateTime(2024, 1, 15, 0)),
      MarkerFile("preceded", MuseLine \o MarkerLine("%", Jan15), DateTime(2024, 1, 15, 0)),
      MarkerFile("preceded", MuseLine \o MuseLine \o MarkerLine("%", Dec31) \o MarkerLine("%", Jan15),
                 DateTime(2023, 12, 31, 0)),
      MarkerFile("blankfirst", <<"\n">> \o MarkerLine("%", Jan15), DateTime(2024, 1, 15, 0)),
      MarkerFile("blankbetween", MuseLine \o <<" ", "\n">> \o MarkerLine("%", Jan15),
                 DateTime(2024, 1, 15, 0)) }

(***************************************************************************)
(* json.dumps with its default separators, for the values the context      *)
(* holds: None, or a list of artist, album or track objects whose keys     *)
(* come in the order the records are built with.                           *)
(***************************************************************************)
JsonChar(c) == IF c \in {"\"", "\\"} THEN <<"\\", c>> ELSE <<c>>

JsonStr(s) == <<"\"">> \o Concat([i \in 1..Len(s) |-> JsonChar(s[i])]) \o <<"\"">>

JsonMember(key, value) == JsonStr(key) \o <<":", " ">> \o value

JsonObject(members) == <<"{">> \o Join(<<",", " ">>, members) \o <<"}">>

JsonArray(elements) == <<"[">> \o Join(<<",", " ">>, elements) \o <<"]">>

KeyId == <<"i", "d">>

KeyName == <<"n", "a", "m", "e">>

KeyReleaseDate == <<"r", "e", "l", "e", "a", "s", "e", "_", "d", "a", "t", "e">>

KeyArtists == <<"a", "r", "t", "i", "s", "t", "s">>

KeyAlbum == <<"a", "l", "b", "u", "m">>

JsonArtistList(artists) ==
    JsonArray([i \in 1..Len(artists) |->
                 JsonObject(<<JsonMember(KeyName, JsonStr(artists[i].name))>>)])

JsonRecord(r) ==
    IF "release_date" \in DOMAIN r
    THEN JsonObject(<<JsonMember(KeyId, JsonStr(r.id)), JsonMember(KeyName, JsonStr(r.name)),
                      JsonMember(KeyReleaseDate, JsonStr(r.release_date)),
                      JsonMember(KeyArtists, JsonArtistList(r.artists))>>)
    ELSE IF "album" \in DOMAIN r
    THEN JsonObject(<<JsonMember(KeyId, JsonStr(r.id)), JsonMember(KeyName, JsonStr(r.name)),
                      JsonMember(KeyArtists, JsonArtistList(r.artists)),
                      JsonMember(KeyAlbum,
                                 JsonObject(<<JsonMember(KeyName, JsonStr(r.album.name))>>))>>)
    ELSE JsonObject(<<JsonMember(KeyId, JsonStr(r.id)), JsonMember(KeyName, JsonStr(r.name))>>)

JsonDumps(v) ==
    IF v = PyNone THEN <<"n", "u", "l", "l">>
    ELSE JsonArray([i \in 1..Len(v.items) |-> JsonRecord(v.items[i])])

(***************************************************************************)
(* src/powerspot/cli.py: the chain.  What the remote API holds for the     *)
(* user, the files named on the command line and the answers typed at the  *)
(* prompts are the inputs of the subcommands.                              *)
(***************************************************************************)
RemoteSavedAlbums ==
    <<[items |-> <<[album |-> AlbFeb]>>, next |-> 2],
      [items |-> <<[album |-> AlbDec]>>, next |-> 0]>>

RemoteSavedTracks == <<[items |-> <<[track |-> TrkOne], [track |-> TrkTwo]>>, next |-> 0]>>

RemoteFollowed ==
    <<[items |-> <<ArtMuse, ArtAbba>>, next |-> 2],
      [items |-> <<ArtAbbaCap>>, next |-> 0]>>

RemoteTopArtists == <<ArtZed, ArtMuse>>

RemoteTopTracks == <<TrkTwo>>

\* artist_albums per artist; the release date of ar3's album has month
\* precision and parses in neither format.
RemoteCatalog ==
    [id \in ArtistIds |->
       CASE id = IdMuse -> <<AlbFeb, AlbDec>> [] id = IdAbba -> <<>>
         [] id = IdAbbaCap -> <<AlbMonth>> [] id = IdZed -> <<AlbCut>>]

\* The JSON files given with --file.
ArtistsFile == <<ArtAbba, ArtZed, ArtMuse>>

\* A file whose second artist has the album with the month-precision date.
ArtistsFileMonth == <<ArtMuse, ArtAbbaCap, ArtZed>>

AlbumsFile == <<AlbYear, AlbFeb>>

TracksFile == <<TrkTwo>>

ReleasesFile == <<AlbDec>>

\* The files given with --read-date.
ReadDateFiles ==
    { [kind |-> "valid", text |-> MarkerLine("#", <<"2", "0", "2", "3", "-", "1", "2", "-", "3", "1">>)],
      [kind |-> "baddate", text |-> MarkerLine("%", <<"2", "0", "2", "4", "-", "1", "3", "-", "0", "1">>)],
      [kind |-> "empty", text |-> <<>>] }

\* --weeks as given on the command line, and the answers to the prompt
\* "Fetch time interval in weeks" (4 is its default).
WeeksOptions == {4}

PromptDefault == 4

\* The clock while the chain runs.
ChainClock == DateTime(2024, 1, 29, 0)

PromptAnswers == {PromptDefault, 1}

\* The names given to `write`.
OutJson == <<"o", ".", "j", "s", "o", "n">>

OutWiki == <<"o", ".", "w", "i", "k", "i">>

BareWiki == <<"w", "i", "k", "i">>

FileNames == {OutJson, OutWiki, BareWiki}

\* The clock reading handed to a formatter called with print_date=False,
\* which does not read it.
Unread == DateTime(1970, 1, 1, 0)

\* ctx.obj[key] = value
Put(obj, key, value) == [k \in DOMAIN obj \cup {key} |-> IF k = key THEN value ELSE obj[k]]

Has(obj, key) == key \in DOMAIN obj

\* The assignments of a producing subcommand without the one to `export`.
ProduceWithoutExport(obj, key, value) == Put(Put(obj, key, value), "last", key)

\* The assignments of a producing subcommand without the one to `last`.
ProduceWithoutLast(obj, key, value) == Put(Put(obj, key, value), "export", value)

\* The three assignments that end a producing subcommand.
Produce(obj, key, value) == Put(Put(Put(obj, key, value), "export", value), "last", key)

\* PARSERS[kind](value, print_date=False); iterating None raises TypeError.
Parse(kind, value) ==
    IF value = PyNone THEN Raise("TypeError")
    ELSE PyStr(CASE kind = "tracks" -> tabulate_tracks(value.items, FALSE, Unread)
                 [] kind = "artists" -> parse_artists(value.items, FALSE, Unread)
                 [] kind = "albums" -> tabulate_albums(value.items, FALSE, Unread))

ParserKeys == <<"tracks", "artists", "albums">>

\* The chain going on to its next subcommand whether or not one has failed.
RunningAfterFailure == Len(hist) < MaxChain

\* The next subcommand of the chain is invoked: none has failed.
Running == status = "running" /\ Len(hist) < MaxChain

\* The subcommand returns: the chain goes on with the new context.
Complete(obj, entry) ==
    /\ ctx' = obj
    /\ hist' = Append(hist, entry @@ [done |-> TRUE])
    /\ UNCHANGED <<status, err>>

\* An exception escapes the subcommand: the process ends.
Crash(exc, entry) ==
    /\ status' = "failed"
    /\ err' = exc
    /\ hist' = Append(hist, entry @@ [done |-> FALSE])
    /\ UNCHANGED ctx

(***************************************************************************)
(* The chain starts with the context main() builds; no operation has been  *)
(* called directly.                                                        *)
(***************************************************************************)
NoCall == [op |-> "none"]

Init ==
    /\ ctx = [k \in {"username"} |-> "user"]
    /\ status = "running"
    /\ err = PyNone
    /\ hist = <<>>
    /\ files = [f \in {} |-> <<>>]
    /\ library = <<>>
    /\ call = NoCall

(***************************************************************************)
(* SpecOps: the operations and the io functions called directly, on every  *)
(* input of the sets above.                                                *)
(***************************************************************************)
\* One call per run: the operations keep no state between calls.
CallGetSavedAlbums ==
    /\ call = NoCall
    /\ \E token \in BOOLEAN, pages \in Listings(SavedAlbumPages) :
        call' = [op |-> "get_saved_albums", token |-> token, pages |-> pages,
                 ret |-> get_saved_albums(token, pages)]
    /\ UNCHANGED cliVars

CallGetSavedTracks ==
    /\ call = NoCall
    /\ \E token \in BOOLEAN, pages \in Listings(SavedTrackPages) :
        call' = [op |-> "get_saved_tracks", token |-> token, pages |-> pages,
                 ret |-> get_saved_tracks(token, pages)]
    /\ UNCHANGED cliVars

CallGetFollowedArtists ==
    /\ call = NoCall
    /\ \E token \in BOOLEAN, pages \in Listings(FollowedPages) :
        call' = [op |-> "get_followed_artists", token |-> token, pages |-> pages,
                 ret |-> get_followed_artists(token, pages)]
    /\ UNCHANGED cliVars

CallGetNewReleases ==
    /\ call = NoCall
    /\ \E catalog \in Catalogs, artists \in SeqsUpTo(Artists, MaxArtists),
          date \in CutoffDates \cup {PyNone},
          weeks \in {PyInt(w) : w \in WeekCounts} \cup {PyNone}, now \in Clock :
        call' = [op |-> "get_new_releases", catalog |-> catalog, artists |-> artists,
                 date |-> date, weeks |-> weeks, now |-> now,
                 ret |-> get_new_releases(catalog, artists, date, weeks, now)]
    /\ UNCHANGED cliVars

\* parse_release_date on the text YYYY-MM-DD of a calendar day, and on the
\* text YYYY of a year.
CallParseReleaseDate ==
    /\ call = NoCall
    /\ \/ \E day \in CalendarDays :
            /\ day.d <= DaysInMonth(day.y, day.m)
            /\ LET text == Digits(day.y, 4) \o <<"-">> \o Digits(day.m, 2)
                            \o <<"-">> \o Digits(day.d, 2)
               IN call' = [op |-> "parse_release_date", form |-> "YYYY-MM-DD",
                           y |-> day.y, m |-> day.m, d |-> day.d, text |-> text,
                           ret |-> parse_release_date(text)]
       \/ \E y \in ReleaseYears :
            call' = [op |-> "parse_release_date", form |-> "YYYY",
                     y |-> y, m |-> 1, d |-> 1, text |-> Digits(y, 4),
                     ret |-> parse_release_date(Digits(y, 4))]
    /\ UNCHANGED cliVars

\* parse_albums(albums, print_date=False)
CallParseAlbums ==
    /\ call = NoCall
    /\ \E albums \in SeqsUpTo({AlbAB, AlbYear, AlbDuo}, MaxAlbums) :
        call' = [op |-> "parse_albums", albums |-> albums,
                 ret |-> parse_albums(albums, FALSE, Unread)]
    /\ UNCHANGED cliVars

CallReadDate ==
    /\ call = NoCall
    /\ \E file \in MarkerFiles :
        call' = [op |-> "read_date", file |-> file, ret |-> read_date(file.text)]
    /\ UNCHANGED cliVars

\* A formatter's output with print_date=True written to a file, and
\* read_date on that file.
RoundTrip(formatter, text, now) ==
    [op |-> "roundtrip", formatter |-> formatter, now |-> now, text |-> text,
     ret |-> read_date(text)]

CallRoundTripArtists ==
    /\ call = NoCall
    /\ \E now \in Clock, artists \in SeqsUpTo(Artists, 2) :
        call' = RoundTrip("parse_artists", parse_artists(artists, TRUE, now), now)
    /\ UNCHANGED cliVars

CallRoundTripAlbums ==
    /\ call = NoCall
    /\ \E now \in Clock, albums \in SeqsUpTo({AlbFeb, AlbYear}, 2) :
        call' = RoundTrip("parse_albums", parse_albums(albums, TRUE, now), now)
    /\ UNCHANGED cliVars

CallRoundTripAlbumTable ==
    /\ call = NoCall
    /\ \E now \in Clock, albums \in SeqsUpTo({AlbFeb, AlbYear}, 2) :
        call' = RoundTrip("tabulate_albums", tabulate_albums(albums, TRUE, now), now)
    /\ UNCHANGED cliVars

CallRoundTripTrackTable ==
    /\ call = NoCall
    /\ \E now \in Clock, tracks \in SeqsUpTo({TrkOne, TrkTwo}, 2) :
        call' = RoundTrip("tabulate_tracks", tabulate_tracks(tracks, TRUE, now), now)
    /\ UNCHANGED cliVars

NextOps ==
    \/ CallGetSavedAlbums
    \/ CallGetSavedTracks
    \/ CallGetFollowedArtists
    \/ CallGetNewReleases
    \/ CallParseReleaseDate
    \/ CallParseAlbums
    \/ CallReadDate
    \/ CallRoundTripArtists
    \/ CallRoundTripAlbums
    \/ CallRoundTripAlbumTable
    \/ CallRoundTripTrackTable

SpecOps == Init /\ [][NextOps]_vars

(***************************************************************************)
(* The subcommands.                                                        *)
(***************************************************************************)
\* The loop of save --ask appending every album, whatever the answer.
ConfirmedAll(albums, answers) == albums

\* The albums confirmed at the prompt "Save album", in order.
RECURSIVE Confirmed(_, _)
Confirmed(albums, answers) ==
    IF albums = <<>> THEN <<>>
    ELSE (IF Head(answers) THEN <<Head(albums)>> ELSE <<>>)
         \o Confirmed(Tail(albums), Tail(answers))

\* albums [--file]
albums ==
    /\ Running
    /\ \E file \in {PyNone, PyList(AlbumsFile)}, token \in BOOLEAN :
        /\ file # PyNone => token
        /\ LET saved == get_saved_albums(token, RemoteSavedAlbums)
               albums == IF file # PyNone THEN file
                         ELSE IF saved = PyNone THEN Raise("TypeError")
                         ELSE PyList([i \in 1..Len(saved.items) |-> saved.items[i].album])
               entry == [cmd |-> "albums", file |-> file, token |-> token, ret |-> albums]
           IN IF IsRaise(albums) THEN Crash(albums, entry)
              ELSE Complete(Produce(ctx, "albums", albums), entry)
    /\ UNCHANGED <<files, library, call>>

\* artists [--file]
artists ==
    /\ Running
    /\ \E file \in {PyNone, PyList(ArtistsFile), PyList(ArtistsFileMonth)}, token \in BOOLEAN :
        /\ file # PyNone => token
        /\ LET artists == IF file # PyNone THEN file
                          ELSE get_followed_artists(token, RemoteFollowed)
               entry == [cmd |-> "artists", file |-> file, token |-> token, ret |-> artists]
           IN Complete(Produce(ctx, "artists", artists), entry)
    /\ UNCHANGED <<files, library, call>>

\* tracks [--file]
tracks ==
    /\ Running
    /\ \E file \in {PyNone, PyList(TracksFile)}, token \in BOOLEAN :
        /\ file # PyNone => token
        /\ LET saved == get_saved_tracks(token, RemoteSavedTracks)
               tracks == IF file # PyNone THEN file
                         ELSE IF saved = PyNone THEN Raise("TypeError")
                         ELSE PyList([i \in 1..Len(saved.items) |-> saved.items[i].track])
               entry == [cmd |-> "tracks", file |-> file, token |-> token, ret |-> tracks]
           IN IF IsRaise(tracks) THEN Crash(tracks, entry)
              ELSE Complete(Produce(ctx, "tracks", tracks), entry)
    /\ UNCHANGED <<files, library, call>>

\* releases [--file] [--read-date] [--weeks]
releases ==
    /\ Running
    /\ \E file \in {PyNone, PyList(ReleasesFile)}, read \in ReadDateFiles \cup {PyNone},
          weeks \in {PyInt(w) : w \in WeeksOptions} \cup {PyNone},
          answer \in PromptAnswers :
        \* options that are not read are left out
        /\ file # PyNone => read = PyNone /\ weeks = PyNone
        /\ (file # PyNone \/ read # PyNone \/ weeks # PyNone) => answer = PromptDefault
        /\ LET prompted == file = PyNone /\ read = PyNone /\ weeks = PyNone
               date == IF read # PyNone THEN read_date(read.text) ELSE PyNone
               weeks_used == IF prompted THEN PyInt(answer) ELSE weeks
               \* get_new_releases is called on a list of artists
               filtering == /\ file = PyNone /\ ~IsRaise(date)
                            /\ Has(ctx, "artists") /\ ctx["artists"] # PyNone
               new_releases ==
                   IF file # PyNone THEN file
                   ELSE IF IsRaise(date) THEN date
                   ELSE IF ~Has(ctx, "artists") THEN Raise("UnboundLocalError")
                   ELSE IF IsRaise(Cutoff(date, weeks_used, ChainClock))
                        THEN Cutoff(date, weeks_used, ChainClock)
                   ELSE IF ctx["artists"] = PyNone THEN Raise("TypeError")
                   ELSE get_new_releases(RemoteCatalog, ctx["artists"].items, date,
                                         weeks_used, ChainClock)
               entry == [cmd |-> "releases", file |-> file, read |-> read, weeks |-> weeks,
                         answer |-> IF prompted THEN PyInt(answer) ELSE PyNone,
                         date |-> date,
                         has_artists |-> Has(ctx, "artists"),
                         filtering |-> filtering,
                         ret |-> new_releases,
                         queried |-> IF filtering
                                        /\ ~IsRaise(Cutoff(date, weeks_used, ChainClock))
                                     THEN ArtistsQueried(RemoteCatalog, ctx["artists"].items, 1)
                                     ELSE <<>>,
                         ctx_before |-> ctx,
                         cutoff |-> IF filtering THEN Cutoff(date, weeks_used, ChainClock)
                                    ELSE PyNone,
                         echo |-> IF file = PyNone /\ ~IsRaise(date) /\ ~Has(ctx, "artists")
                                  THEN "Artists not in context, discarding" ELSE ""]
           IN IF IsRaise(new_releases) THEN Crash(new_releases, entry)
              ELSE Complete(Produce(ctx, "albums", new_releases), entry)
    /\ UNCHANGED <<files, library, call>>

\* topartists
topartists ==
    /\ Running
    /\ \E token \in BOOLEAN :
        Complete(Produce(ctx, "artists", get_top_artists(token, RemoteTopArtists)),
                 [cmd |-> "topartists", file |-> PyNone, token |-> token,
                  ret |-> get_top_artists(token, RemoteTopArtists)])
    /\ UNCHANGED <<files, library, call>>

\* toptracks
toptracks ==
    /\ Running
    /\ \E token \in BOOLEAN :
        Complete(Produce(ctx, "tracks", get_top_tracks(token, RemoteTopTracks)),
                 [cmd |-> "toptracks", file |-> PyNone, token |-> token,
                  ret |-> get_top_tracks(token, RemoteTopTracks)])
    /\ UNCHANGED <<files, library, call>>

\* save [--ask]
save ==
    /\ Running
    /\ IF ~Has(ctx, "albums")
       THEN /\ Crash(Raise("KeyError"), [cmd |-> "save"])
            /\ UNCHANGED library
       ELSE \E ask \in BOOLEAN, token \in BOOLEAN,
               answers \in [1..Len(ctx["albums"].items) -> BOOLEAN] :
               /\ ~ask => \A i \in DOMAIN answers : answers[i]
               /\ LET albums_to_save == IF ask THEN Confirmed(ctx["albums"].items, answers)
                                        ELSE ctx["albums"].items
                      saved == save_albums(token, albums_to_save)
                  IN /\ library' = IF saved = PyNone THEN library ELSE library \o saved.items
                     /\ Complete(ctx, [cmd |-> "save", ask |-> ask, token |-> token,
                                       answers |-> answers, passed |-> albums_to_save,
                                       ctx_before |-> ctx, library_before |-> library])
    /\ UNCHANGED <<files, call>>

\* show: the parsers of the keys present, in the order of PARSERS.
show ==
    /\ Running
    /\ LET present == SelectSeq(ParserKeys, LAMBDA k : Has(ctx, k))
           bad == {i \in 1..Len(present) : ctx[present[i]] = PyNone}
       IN IF bad = {}
          THEN Complete(ctx, [cmd |-> "show", echo |-> present])
          ELSE Crash(Raise("TypeError"),
                     [cmd |-> "show",
                      echo |-> SubSeq(present, 1, (CHOOSE i \in bad : \A j \in bad : i <= j) - 1)])
    /\ UNCHANGED <<files, library, call>>

\* write with the formatter whatever the file name is.
WriteTextFormatted(obj, name) ==
    IF ~Has(obj, "last") THEN Raise("KeyError") ELSE Parse(obj["last"], obj["export"])

\* What write hands to file.write: the formatter of `last` on `export` when
\* the part of the name behind its last dot is "wiki", else json.dumps of
\* `export`; a key the context lacks raises KeyError.
WriteText(obj, name) ==
    LET parts == SplitOn(name, ".") IN
    IF parts[Len(parts)] = <<"w", "i", "k", "i">>
    THEN (IF ~Has(obj, "last") THEN Raise("KeyError")
          ELSE Parse(obj["last"], obj["export"]))
    ELSE (IF ~Has(obj, "export") THEN Raise("KeyError")
          ELSE PyStr(JsonDumps(obj["export"])))

\* write FILE
write ==
    /\ Running
    /\ \E name \in FileNames :
        LET text == WriteText(ctx, name)
            entry == [cmd |-> "write", name |-> name]
        IN IF IsRaise(text)
           THEN Crash(text, entry) /\ UNCHANGED files
           ELSE Complete(ctx, entry) /\ files' = Put(files, name, text.text)
    /\ UNCHANGED <<library, call>>

Next ==
    \/ albums
    \/ artists
    \/ tracks
    \/ releases
    \/ topartists
    \/ toptracks
    \/ save
    \/ show
    \/ write

Spec == Init /\ [][Next]_vars

(***************************************************************************)
(* Claims on the operations, checked under SpecOps.                        *)
(***************************************************************************)
\* a is later than b, field by field.
Later(a, b) ==
    \/ a.y > b.y
    \/ a.y = b.y /\ a.m > b.m
    \/ a.y = b.y /\ a.m = b.m /\ a.d > b.d
    \/ a.y = b.y /\ a.m = b.m /\ a.d = b.d /\ a.tod > b.tod

\* The first album the API returns for each artist, kept iff its parsed
\* release date is strictly after the cutoff, in artist order.
ExpectedReleases(c) ==
    LET first(i) == c.catalog[c.artists[i].id]
        after(rd) == IF c.date # PyNone THEN Later(rd, c.date)
                     ELSE Instant(rd) + Weeks(c.weeks.val) > Instant(c.now)
        keep(i) == first(i) # <<>> /\ after(parse_release_date(first(i)[1].release_date))
        kept == SelectSeq([i \in 1..Len(c.artists) |-> i], keep)
    IN [k \in 1..Len(kept) |-> first(kept[k])[1]]

AllFirstDatesParse(c) ==
    \A i \in 1..Len(c.artists) :
        c.catalog[c.artists[i].id] # <<>>
            => ~IsRaise(parse_release_date(c.catalog[c.artists[i].id][1].release_date))

\* C2: whenever a cutoff is given (a date, or a week count) and every
\* artist's first album has a parseable release date, get_new_releases
\* returns exactly, in artist input order, the first album the API returns
\* for each artist whose parsed release date is strictly after the cutoff;
\* artists without albums contribute nothing and at most one album per
\* artist is returned.
C2_NewReleasesExact ==
    (call.op = "get_new_releases" /\ (call.date # PyNone \/ call.weeks # PyNone)
       /\ AllFirstDatesParse(call))
        => /\ call.ret = PyList(ExpectedReleases(call))
           /\ Len(call.ret.items) <= Len(call.artists)

\* An artist without albums, then one whose album is dated exactly at the
\* cutoff, then one with a later album: only the last album is returned.
C2_Witness ==
    /\ call.op = "get_new_releases"
    /\ call.artists = <<ArtAbba, ArtZed, ArtMuse>>
    /\ call.catalog[IdAbba] = <<>>
    /\ call.catalog[IdZed] = <<AlbCut>>
    /\ call.date = DateTime(2024, 1, 1, 0)
    /\ call.ret = PyList(<<AlbFeb>>)

\* The pages on the cursor chain that starts at the first page.
IsCursorChain(pages, chain) ==
    /\ chain[1] = 1
    /\ \A k \in 1..(Len(chain) - 1) : pages[chain[k]].next = chain[k + 1]
    /\ pages[chain[Len(chain)]].next = 0

CursorChains(pages) ==
    { chain \in UNION {[1..n -> 1..Len(pages)] : n \in 1..Len(pages)} :
        IsCursorChain(pages, chain) }

\* C4: with a token, get_saved_albums and get_saved_tracks return the
\* concatenation of the items of the pages on the cursor chain c0 -> c1 ->
\* ... -> absent, in page order and in the order inside each page, and
\* nothing of a page behind the one without a next cursor.
C4_PagesConcatenated ==
    (call.op \in {"get_saved_albums", "get_saved_tracks"} /\ call.token)
        => \E chain \in CursorChains(call.pages) :
               call.ret = PyList(Concat([k \in 1..Len(chain) |-> call.pages[chain[k]].items]))

\* Two chained pages and a third one no cursor leads to.
C4_Witness ==
    /\ call.op = "get_saved_albums"
    /\ call.token
    /\ Len(call.pages) = 3
    /\ call.pages[1] = [items |-> <<[album |-> AlbFeb], [album |-> AlbDec]>>, next |-> 2]
    /\ call.pages[2] = [items |-> <<[album |-> AlbFeb]>>, next |-> 0]
    /\ call.pages[3].items = <<[album |-> AlbDec]>>
    /\ call.ret = PyList(<<[album |-> AlbFeb], [album |-> AlbDec], [album |-> AlbFeb]>>)

Count(xs, x) == Cardinality({i \in 1..Len(xs) : xs[i] = x})

\* C5: with a token, get_followed_artists returns a permutation of the
\* artists fetched over all pages, ascending by lower-cased name.
C5_FollowedSorted ==
    (call.op = "get_followed_artists" /\ call.token)
        => /\ call.ret.tag = "list"
           /\ \A a \in Artists :
                  Count(call.ret.items, a) = Count(DrainPages(call.pages, 1), a)
           /\ \A i, j \in 1..Len(call.ret.items) :
                  i < j => ~StrLess(Lower(call.ret.items[j].name),
                                    Lower(call.ret.items[i].name))

\* Pages yielding Muse then abba return abba then Muse.
C5_Witness ==
    /\ call.op = "get_followed_artists"
    /\ call.token
    /\ DrainPages(call.pages, 1) = <<ArtMuse, ArtAbba>>
    /\ Len(call.pages) >= 2
    /\ call.pages[1].next # 0
    /\ call.ret = PyList(<<ArtAbba, ArtMuse>>)

\* C11: parse_release_date maps the text YYYY-MM-DD of every calendar day
\* to that day and the text YYYY of every year to January 1 of that year;
\* so get_new_releases, given a cutoff date, keeps an artist's first album
\* dated "2023" exactly when 2023-01-01 is after the cutoff: it is returned
\* for the cutoff 2022-06-01 and not for the cutoff 2023-01-01.
C11_YearOnlyIsJanuaryFirst ==
    /\ call.op = "parse_release_date" => call.ret = DateTime(call.y, call.m, call.d, 0)
    /\ (call.op = "get_new_releases" /\ call.date # PyNone /\ AllFirstDatesParse(call)) =>
           \A i \in 1..Len(call.artists) :
               call.catalog[call.artists[i].id] = <<AlbYear>> =>
                   /\ (\E k \in 1..Len(call.ret.items) : call.ret.items[k] = AlbYear)
                          <=> Later(DateTime(2023, 1, 1, 0), call.date)
                   /\ call.date = DateTime(2022, 6, 1, 0) =>
                          \E k \in 1..Len(call.ret.items) : call.ret.items[k] = AlbYear
                   /\ call.date = DateTime(2023, 1, 1, 0) =>
                          \A k \in 1..Len(call.ret.items) : call.ret.items[k] # AlbYear

\* The album dated "2023" of the only artist asked for, with the cutoff
\* 2022-06-01: it is returned.
C11_Witness ==
    /\ call.op = "get_new_releases"
    /\ call.artists = <<ArtAbbaCap>>
    /\ call.catalog[IdAbbaCap] = <<AlbYear>>
    /\ call.date = DateTime(2022, 6, 1, 0)
    /\ call.ret = PyList(<<AlbYear>>)

\* C8: on a readable file from which no valid date marker can be recovered
\* (empty, no marker line, a marker line without a date token, a date token
\* that is not YYYY-MM-DD) read_date returns None and does not raise.
C8_ReadDateNeverRaises ==
    (call.op = "read_date" /\ call.file.kind \in {"empty", "nomarker", "notoken", "baddate"})
        => call.ret = PyNone

\* C12: on every file that holds a marker line, read_date returns the date
\* of the first line whose first word, its first character dropped, is
\* "date": the lines before it, blank ones included, are skipped and the
\* lines behind it are not read.
C12_ReadDateSkipsToMarker ==
    (call.op = "read_date" /\ call.file.date # PyNone) => call.ret = call.file.date

\* C14: parse_albums with print_date=False returns one line per record, in
\* input order, each "- {first artist name} - {album name} - {release
\* date}" ended by a newline, and nothing else: the record A / B /
\* 2020-01-01 alone gives "- A - B - 2020-01-01\n", no record the empty text.
C14_ParseAlbumsLines ==
    call.op = "parse_albums" =>
        LET lines == SplitOn(call.ret, "\n")
            n == Len(call.albums)
        IN /\ Len(lines) = n + 1
           /\ lines[n + 1] = <<>>
           /\ \A i \in 1..n :
                  lines[i] = Join(<<" ", "-", " ">>,
                                  <<<<"-", " ">> \o call.albums[i].artists[1].name,
                                    call.albums[i].name, call.albums[i].release_date>>)
           /\ Len(call.ret)
                  = n + Len(Concat([i \in 1..n |-> lines[i]]))
           /\ call.albums = <<>> => call.ret = <<>>
           /\ call.albums = <<AlbAB>> =>
                  call.ret = <<"-", " ", "A", " ", "-", " ", "B", " ", "-", " ",
                               "2", "0", "2", "0", "-", "0", "1", "-", "0", "1", "\n">>

\* The album of two artists, then the record A / B / 2020-01-01: two lines,
\* the first naming the first artist only.
C14_Witness ==
    /\ call.op = "parse_albums"
    /\ call.albums = <<AlbDuo, AlbAB>>
    /\ call.ret = <<"-", " ">> \o Muse \o <<" ", "-", " ", "Z", " ", "-", " ">> \o Dec31
                  \o <<"\n", "-", " ", "A", " ", "-", " ", "B", " ", "-", " ",
                       "2", "0", "2", "0", "-", "0", "1", "-", "0", "1", "\n">>

\* C10: read_date on a file holding a formatter's output with
\* print_date=True returns the calendar date of the clock at write time.
C10_MarkerRoundTrip ==
    call.op = "roundtrip"
        => /\ call.ret.tag = "datetime"
           /\ call.ret.y = call.now.y
           /\ call.ret.m = call.now.m
           /\ call.ret.d = call.now.d

\* A table of two tracks written in the middle of a day.
C10_Witness ==
    /\ call.op = "roundtrip"
    /\ call.formatter = "tabulate_tracks"
    /\ call.now = DateTime(2024, 2, 12, TicksPerDay - 1)
    /\ Len(call.text) > 40
    /\ call.ret = DateTime(2024, 2, 12, 0)

(***************************************************************************)
(* Claims on the chain, checked under Spec.                                *)
(***************************************************************************)
Producing == {"albums", "artists", "tracks", "releases", "topartists", "toptracks"}

KindOf(cmd) ==
    CASE cmd \in {"albums", "releases"} -> "albums"
      [] cmd \in {"artists", "topartists"} -> "artists"
      [] cmd \in {"tracks", "toptracks"} -> "tracks"

Last(S) == CHOOSE i \in S : \A j \in S : j <= i

\* C1: while every subcommand so far completed, `export` holds the value of
\* the most recently completed producing subcommand and `last` its kind;
\* before any producing subcommand both are absent, and save, show and
\* write, producing nothing, leave both as they were.
C1_ExportIsLastProduced ==
    status = "running" =>
        LET P == {i \in 1..Len(hist) : hist[i].cmd \in Producing} IN
        IF P = {} THEN ~Has(ctx, "export") /\ ~Has(ctx, "last")
        ELSE /\ Has(ctx, "export") /\ Has(ctx, "last")
             /\ ctx["export"] = hist[Last(P)].ret
             /\ ctx["last"] = KindOf(hist[Last(P)].cmd)

\* artists, then releases, then a non-producing save: export still holds
\* the releases and last is "albums".
C1_Witness ==
    /\ status = "running"
    /\ Len(hist) = 3
    /\ hist[1].cmd = "artists"
    /\ hist[2].cmd = "releases"
    /\ hist[3].cmd = "save"
    /\ ctx["last"] = "albums"
    /\ ctx["export"] = PyList(<<AlbFeb>>)
    /\ ctx["artists"] # ctx["export"]

\* C3: whenever releases (without --file) reaches the filtering, the cutoff
\* is defined and is the marker date if --read-date was given, else now
\* minus --weeks if given, else now minus the prompted week count.
C3_CutoffAlwaysResolved ==
    \A i \in 1..Len(hist) :
        (hist[i].cmd = "releases" /\ hist[i].filtering) =>
            /\ hist[i].cutoff.tag = "int"
            /\ hist[i].read # PyNone =>
                   hist[i].date # PyNone /\ hist[i].cutoff.val = Instant(hist[i].date)
            /\ (hist[i].read = PyNone /\ hist[i].weeks # PyNone) =>
                   hist[i].cutoff.val = Instant(ChainClock) - Weeks(hist[i].weeks.val)
            /\ (hist[i].read = PyNone /\ hist[i].weeks = PyNone) =>
                   hist[i].cutoff.val = Instant(ChainClock) - Weeks(hist[i].answer.val)

\* C6: releases without --file on a context without `artists` reports the
\* condition and completes, so that the chain goes on.
C6_MissingArtistsNotFatal ==
    \A i \in 1..Len(hist) :
        (hist[i].cmd = "releases" /\ hist[i].file = PyNone /\ ~IsRaise(hist[i].date)
           /\ ~hist[i].has_artists) =>
            /\ hist[i].echo = "Artists not in context, discarding"
            /\ hist[i].done
            /\ status = "running"

\* C7: a fetch subcommand that cannot get its token completes, with an
\* absent result, and the chain goes on.
C7_TokenFailureNotFatal ==
    \A i \in 1..Len(hist) :
        (hist[i].cmd \in {"albums", "artists", "tracks", "topartists", "toptracks"}
           /\ hist[i].file = PyNone /\ ~hist[i].token) =>
            /\ hist[i].done
            /\ hist[i].ret = PyNone

\* C13: a completed save handed to save_albums, with --ask, exactly the
\* albums of context["albums"] that were confirmed, in order, and without
\* --ask every album of context["albums"]; the library gained the ids of
\* these albums and of no declined one, and the context is as it was.
C13_SaveOnlyConfirmed ==
    (Len(hist) > 0 /\ hist[Len(hist)].cmd = "save" /\ hist[Len(hist)].done) =>
        LET e == hist[Len(hist)]
            in_ctx == e.ctx_before["albums"].items
            kept == SelectSeq([i \in 1..Len(in_ctx) |-> i], LAMBDA i : e.answers[i])
            confirmed == [k \in 1..Len(kept) |-> in_ctx[kept[k]]]
            added == SubSeq(library, Len(e.library_before) + 1, Len(library))
        IN /\ e.ask => e.passed = confirmed
           /\ ~e.ask => e.passed = in_ctx
           /\ SubSeq(library, 1, Len(e.library_before)) = e.library_before
           /\ added = IF e.token THEN [k \in 1..Len(e.passed) |-> e.passed[k].id] ELSE <<>>
           /\ \A i \in 1..Len(in_ctx) :
                  (e.ask /\ ~e.answers[i]) =>
                      \A k \in 1..Len(added) : added[k] # in_ctx[i].id
           /\ ctx = e.ctx_before

\* albums --file, then save --ask declining the first album and confirming
\* the second: the library holds the second album alone.
C13_Witness ==
    /\ Len(hist) = 2
    /\ hist[1].cmd = "albums" /\ hist[1].file = PyList(AlbumsFile)
    /\ hist[2].cmd = "save" /\ hist[2].done /\ hist[2].ask /\ hist[2].token
    /\ hist[2].answers = <<FALSE, TRUE>>
    /\ hist[2].passed = <<AlbFeb>>
    /\ library = <<AlbFeb.id>>
    /\ ctx["albums"] = PyList(AlbumsFile)

\* C15: every step of the chain runs one subcommand, after all earlier ones
\* completed and behind them in the order of invocation; once a subcommand
\* failed no step is taken; the step of a failing subcommand leaves the
\* library and the files as they were, and no step takes an album out of the
\* library or a file away.
C15_InOrderNoRollback ==
    [][ /\ status = "running"
        /\ \A i \in 1..Len(hist) : hist[i].done
        /\ Len(hist') = Len(hist) + 1
        /\ SubSeq(hist', 1, Len(hist)) = hist
        /\ status' = "failed" <=> ~hist'[Len(hist')].done
        /\ status' = "failed" => library' = library /\ files' = files /\ ctx' = ctx
        /\ Len(library') >= Len(library)
        /\ SubSeq(library', 1, Len(library)) = library
        /\ \A f \in DOMAIN files :
               /\ f \in DOMAIN files'
               /\ hist'[Len(hist')].cmd # "write" => files'[f] = files[f]
      ]_vars

\* albums --file, save, then releases failing for want of artists: the
\* albums saved are still in the library.
C15_Witness ==
    /\ Len(hist) = 3
    /\ hist[1].cmd = "albums" /\ hist[1].done
    /\ hist[2].cmd = "save" /\ hist[2].done /\ hist[2].token /\ ~hist[2].ask
    /\ hist[3].cmd = "releases" /\ ~hist[3].done
    /\ status = "failed"
    /\ library = <<AlbYear.id, AlbFeb.id>>

\* The first artist of the sequence whose first album has a release date
\* that parses in neither format; 0 when there is none.
FirstUnparseable(catalog, given) ==
    LET bad == {i \in 1..Len(given) :
                   /\ catalog[given[i].id] # <<>>
                   /\ IsRaise(StrptimeYMD(catalog[given[i].id][1].release_date))
                   /\ IsRaise(StrptimeY(catalog[given[i].id][1].release_date))}
    IN IF bad = {} THEN 0 ELSE CHOOSE i \in bad : \A j \in bad : i <= j

\* C16: when releases filters the artists of the context and the album of
\* one of them has a release date that parses in neither format,
\* get_new_releases raises and returns nothing, whatever the artists before
\* that one contributed; no artist behind that one is queried; releases
\* fails and the context, with its keys albums, export and last, is as it
\* was before.
C16_UnparseableDateAborts ==
    \A n \in 1..Len(hist) :
        (hist[n].cmd = "releases" /\ hist[n].filtering
           /\ FirstUnparseable(RemoteCatalog, hist[n].ctx_before["artists"].items) # 0) =>
            LET e == hist[n]
                given == e.ctx_before["artists"].items
                k == FirstUnparseable(RemoteCatalog, given)
            IN /\ IsRaise(e.ret)
               /\ ~e.done
               /\ n = Len(hist)
               /\ status = "failed"
               /\ Len(e.queried) <= k
               /\ \A q \in 1..Len(e.queried) : e.queried[q] = given[q].id
               /\ e.cutoff.tag = "int" => (Len(e.queried) = k /\ e.ret = Raise("ValueError"))
               /\ ctx = e.ctx_before
               /\ \A key \in {"albums", "export", "last"} :
                      /\ Has(ctx, key) <=> Has(e.ctx_before, key)
                      /\ Has(ctx, key) => ctx[key] = e.ctx_before[key]

\* artists --file with Muse, Abba, Z, then releases --weeks 4: Muse's
\* album of 2024-02-10 qualifies, Abba's album dated "2024-02" ends the
\* pass, Z is not queried, and export still holds the artists.
C16_Witness ==
    /\ Len(hist) = 2
    /\ hist[1].cmd = "artists" /\ hist[1].file = PyList(ArtistsFileMonth)
    /\ hist[2].cmd = "releases" /\ hist[2].weeks = PyInt(4) /\ hist[2].filtering
    /\ hist[2].ret = Raise("ValueError")
    /\ hist[2].queried = <<IdMuse, IdAbbaCap>>
    /\ IsNewer(parse_release_date(AlbFeb.release_date), hist[2].cutoff.val)
    /\ status = "failed"
    /\ ~Has(ctx, "albums")
    /\ ctx["export"] = PyList(ArtistsFileMonth)
    /\ ctx["last"] = "artists"

\* C17: a file o.wiki written by write starts with the marker line
\* "%date YYYY-MM-DD" of the day of writing, and read_date on the file, as
\* a later releases --read-date calls it, returns that day.
C17_WrittenWikiCarriesMarker ==
    (Len(hist) > 0 /\ hist[Len(hist)].cmd = "write" /\ hist[Len(hist)].done
       /\ hist[Len(hist)].name = OutWiki) =>
        /\ ReadLine(files[OutWiki], 1) = MarkerLine("%", StrftimeYMD(ChainClock))
        /\ read_date(files[OutWiki])
               = DateTime(ChainClock.y, ChainClock.m, ChainClock.d, 0)

\* C18: between subcommands the context has `export` and `last` both or
\* neither; when it has them `last` is "albums", "artists" or "tracks", the
\* context has the key `last` names and `export` is the value under that
\* key; `username` is there from the start and no subcommand changes it.
C18_ContextShape ==
    /\ [](/\ Has(ctx, "export") <=> Has(ctx, "last")
          /\ Has(ctx, "last") =>
                 /\ ctx["last"] \in {"albums", "artists", "tracks"}
                 /\ Has(ctx, ctx["last"])
                 /\ ctx["export"] = ctx[ctx["last"]]
          /\ Has(ctx, "username"))
    /\ [][Has(ctx', "username") /\ ctx'["username"] = ctx["username"]]_vars

\* topartists, albums, toptracks: `last` names tracks and `export` is the
\* top tracks, while the albums and artists of before are still there.
C18_Witness ==
    /\ Len(hist) = 3
    /\ hist[1].cmd = "topartists" /\ hist[2].cmd = "albums" /\ hist[3].cmd = "toptracks"
    /\ status = "running"
    /\ ctx["last"] = "tracks"
    /\ ctx["export"] = PyList(RemoteTopTracks)
    /\ ctx["tracks"] = ctx["export"]
    /\ Has(ctx, "albums") /\ Has(ctx, "artists")
    /\ ctx["albums"] # ctx["export"]
    /\ ctx["username"] = "user"

\* The albums get_new_releases is to return for the artists of ArtistsFile
\* with --weeks 4.
FilteredOfArtistsFile ==
    ExpectedReleases([catalog |-> RemoteCatalog, artists |-> ArtistsFile, date |-> PyNone,
                      weeks |-> PyInt(4), now |-> ChainClock])

IsScenario ==
    /\ Len(hist) = 3
    /\ hist[1].cmd = "artists" /\ hist[1].file = PyList(ArtistsFile)
    /\ hist[2].cmd = "releases" /\ hist[2].file = PyNone /\ hist[2].read = PyNone
    /\ hist[2].weeks = PyInt(4)
    /\ hist[3].cmd = "write" /\ hist[3].name = OutJson

\* C9: a completed write leaves in its file the formatter of `last` applied
\* to `export` when the last dot-separated part of the name is "wiki", and
\* the JSON encoding of `export` for every other name, whatever `last` is;
\* after artists --file, releases --weeks 4, write o.json the file holds
\* the JSON encoding of the filtered album sequence.
C9_WriteSerializesExport ==
    /\ (Len(hist) > 0 /\ hist[Len(hist)].cmd = "write" /\ hist[Len(hist)].done) =>
           LET name == hist[Len(hist)].name IN
           /\ name \in DOMAIN files
           /\ name \in {OutWiki, BareWiki} =>
                  files[name] =
                      (CASE ctx["last"] = "tracks" -> tabulate_tracks(ctx["export"].items, FALSE, Unread)
                         [] ctx["last"] = "artists" -> parse_artists(ctx["export"].items, FALSE, Unread)
                         [] ctx["last"] = "albums" -> tabulate_albums(ctx["export"].items, FALSE, Unread))
           /\ name = OutJson => files[name] = JsonDumps(ctx["export"])
    /\ IsScenario =>
           /\ hist[3].done
           /\ files[OutJson] = JsonDumps(PyList(FilteredOfArtistsFile))

\* The scenario, with the text it leaves in o.json.
C9_Witness ==
    /\ IsScenario
    /\ status = "running"
    /\ ctx["last"] = "albums"
    /\ files[OutJson] =
       <<"[", "{", "\"", "i", "d", "\"", ":", " ", "\"", "a", "l", "1", "\"",
         ",", " ", "\"", "n", "a", "m", "e", "\"", ":", " ", "\"", "B", "\"",
         ",", " ", "\"", "r", "e", "l", "e", "a", "s", "e", "_", "d", "a",
         "t", "e", "\"", ":", " ", "\"", "2", "0", "2", "4", "-", "0", "2",
         "-", "1", "0", "\"", ",", " ", "\"", "a", "r", "t", "i", "s", "t",
         "s", "\"", ":", " ", "[", "{", "\"", "n", "a", "m", "e", "\"", ":",
         " ", "\"", "M", "u", "s", "e", "\"", "}", "]", "}", "]">>

=============================================================================
